---- MODULE Spec2Model ----
(***************************************************************************)
(* Model of streamlit_testimonial.py: the StudentDatabase record store     *)
(* (an in-memory pandas table backed by Excel files) and the testimonial   *)
(* paragraph renderer of TestimonialApp._create_pdf.                       *)
(*                                                                         *)
(* Text is a sequence of one-character strings, so that str.strip,         *)
(* str.isdigit, int(float(x)), str.split and " ".join are computed and     *)
(* not assumed.  A table cell is a record [t, s, n]: a Python str          *)
(* (t = "str", text s), a Python/numpy integer (t = "int", value n) or     *)
(* pandas' missing value NaN (t = "nan").                                  *)
(*                                                                         *)
(* Library semantics taken from pandas 2.x: DataFrame.at on a column of    *)
(* another dtype stores the value (the column is upcast to object);        *)
(* read_excel reads an empty cell and the empty string as NaN.             *)
(***************************************************************************)
EXTENDS Integers, Sequences, FiniteSets, TLC

VARIABLES
    df,          \* StudentDatabase.df: sequence of rows, each Columns -> cell
    filepath,    \* StudentDatabase.filepath: a path, or NoPath for None
    files,       \* the file system: path -> NoFile or a workbook
    last_pdf,    \* TestimonialApp.last_pdf: path of the last document, or NoText
    pdfs,        \* the documents written: path -> page
    last         \* the operation that ran last, its input and its outcome

vars == <<df, filepath, files, last_pdf, pdfs, last>>

-----------------------------------------------------------------------------
(* Bounds of the model *)

MaxRows == 2      \* rows the in-memory table may grow to
MaxOps == 3       \* operations of one session
MaxGenerates == 2 \* uses of the Generate button in one session
LongNameLen == 47 \* letters of the longest one-word name typed in

-----------------------------------------------------------------------------
(* Cells *)

Str(cs) == [t |-> "str", s |-> cs, n |-> 0]
Int_(k) == [t |-> "int", s |-> <<>>, n |-> k]
NaN == [t |-> "nan", s |-> <<>>, n |-> 0]

Empty == Str(<<>>)

Digits == <<"0", "1", "2", "3", "4", "5", "6", "7", "8", "9">>

IsDigitChar(c) == \E i \in 1..10 : Digits[i] = c

DigitVal(c) == (CHOOSE i \in 1..10 : Digits[i] = c) - 1

IsSpace(c) == c \in {" ", "\t", "\n"}

\* str.isdigit(): non-empty and every character a digit
IsDigit(cs) == Len(cs) > 0 /\ \A i \in 1..Len(cs) : IsDigitChar(cs[i])

\* str.strip()
RECURSIVE LStrip(_)
LStrip(cs) == IF cs # <<>> /\ IsSpace(Head(cs)) THEN LStrip(Tail(cs)) ELSE cs

RECURSIVE RStrip(_)
RStrip(cs) ==
    IF cs # <<>> /\ IsSpace(cs[Len(cs)]) THEN RStrip(SubSeq(cs, 1, Len(cs) - 1)) ELSE cs

Strip(cs) == RStrip(LStrip(cs))

\* str.replace('.', '', 1): the first full stop removed
RECURSIVE ReplaceFirstDot(_)
ReplaceFirstDot(cs) ==
    IF cs = <<>> THEN <<>>
    ELSE IF Head(cs) = "." THEN Tail(cs)
    ELSE <<Head(cs)>> \o ReplaceFirstDot(Tail(cs))

\* value of a run of digits, 0 for the empty run
RECURSIVE DigitsValue(_)
DigitsValue(cs) ==
    IF cs = <<>> THEN 0
    ELSE 10 * DigitsValue(SubSeq(cs, 1, Len(cs) - 1)) + DigitVal(cs[Len(cs)])

\* the characters before the first full stop
RECURSIVE BeforeDot(_)
BeforeDot(cs) ==
    IF cs = <<>> \/ Head(cs) = "." THEN <<>>
    ELSE <<Head(cs)>> \o BeforeDot(Tail(cs))

\* int(float(x)) for x made of digits and at most one full stop
IntOfFloat(cs) == DigitsValue(BeforeDot(cs))

\* str(n) for an integer n
RECURSIVE NatStr(_)
NatStr(k) ==
    IF k < 10 THEN <<Digits[k + 1]>>
    ELSE NatStr(k \div 10) \o <<Digits[(k % 10) + 1]>>

IntStr(k) == IF k < 0 THEN <<"-">> \o NatStr(-k) ELSE NatStr(k)

\* str(x) of a cell, as Series.astype(str) and str() give it
PyStr(v) ==
    CASE v.t = "str" -> v.s
      [] v.t = "int" -> IntStr(v.n)
      [] OTHER -> <<"n", "a", "n">>


-----------------------------------------------------------------------------
(* pandas conversions *)

\* the sign-less part of a numeric literal: digits with at most one full stop
IsUnsignedNumber(cs) == IsDigit(ReplaceFirstDot(cs))

\* pd.to_numeric(x, errors="coerce") followed by astype(int): ok is FALSE where
\* to_numeric gives NaN, n is the value truncated towards zero
ToNumeric(v) ==
    CASE v.t = "int" -> [ok |-> TRUE, n |-> v.n]
      [] v.t = "str" /\ v.s # <<>> /\ Head(v.s) = "-" /\ IsUnsignedNumber(Tail(v.s)) ->
            [ok |-> TRUE, n |-> 0 - IntOfFloat(Tail(v.s))]
      [] v.t = "str" /\ IsUnsignedNumber(v.s) -> [ok |-> TRUE, n |-> IntOfFloat(v.s)]
      [] OTHER -> [ok |-> FALSE, n |-> 0]

\* pd.to_numeric(col, errors="coerce").fillna(0).astype(int), cell by cell
SerialToInt(v) == Int_(IF ToNumeric(v).ok THEN ToNumeric(v).n ELSE 0)

\* lambda x: str(int(float(x))) if str(x).replace('.', '', 1).isdigit() else str(x)
ForceIdString(v) ==
    IF IsDigit(ReplaceFirstDot(PyStr(v)))
    THEN Str(IntStr(IntOfFloat(PyStr(v))))
    ELSE Str(PyStr(v))

-----------------------------------------------------------------------------
(* The table *)

Columns == {"Serial", "ID", "Name", "Father", "Mother", "Class", "Session", "DOB"}

TextColumns == Columns \ {"Serial"}

\* StudentDatabase.__init__: pd.DataFrame(columns=[...]) has no rows
EmptyFrame == <<>>

NormalizeSerialColumn(d) ==
    [i \in 1..Len(d) |-> [d[i] EXCEPT !.Serial = SerialToInt(d[i].Serial)]]

\* self.df[self.df["ID"].astype(str) == key].index
MatchIndex(d, key) == {i \in 1..Len(d) : PyStr(d[i].ID) = key}

Min(S) == CHOOSE x \in S : \A y \in S : x <= y
Max(S) == CHOOSE x \in S : \A y \in S : x >= y

-----------------------------------------------------------------------------
(* StudentDatabase.get_next_serial *)

SerialCells(d) == {i \in 1..Len(d) : d[i].Serial.t # "nan"}

\* the fallback to 1 left out: the non-numeric cells are skipped
get_next_serial_skipping(d) ==
    LET num == {i \in SerialCells(d) : ToNumeric(d[i].Serial).ok} IN
    IF num = {} THEN 1 ELSE Max({ToNumeric(d[i].Serial).n : i \in num}) + 1

get_next_serial(d) ==
    IF Len(d) = 0 THEN 1
    ELSE IF \E i \in SerialCells(d) : ~ToNumeric(d[i].Serial).ok THEN 1
    ELSE IF SerialCells(d) = {} THEN 1
    ELSE Max({ToNumeric(d[i].Serial).n : i \in SerialCells(d)}) + 1

-----------------------------------------------------------------------------
(* StudentDatabase.get_student_by_id *)

NoRecord == [found |-> FALSE, row |-> [c \in Columns |-> NaN]]

\* `not student_id` is true of None and of the empty string
get_student_by_id(d, student_id) ==
    IF student_id = <<>> THEN NoRecord
    ELSE IF MatchIndex(d, student_id) # {}
         THEN [found |-> TRUE, row |-> d[Min(MatchIndex(d, student_id))]]
         ELSE NoRecord

-----------------------------------------------------------------------------
(* StudentDatabase.upsert_student *)

\* str(data.get("ID", "")).strip()
UpsertKey(data) == Strip(IF "ID" \in DOMAIN data THEN PyStr(data["ID"]) ELSE <<>>)

\* the check without .strip()
UpsertRaisesUnstripped(data) ==
    (IF "ID" \in DOMAIN data THEN PyStr(data["ID"]) ELSE <<>>) = <<>>

UpsertRaises(data) == UpsertKey(data) = <<>>

\* for k, v in data.items(): if k in self.df.columns: self.df.at[i, k] = v
OverwriteRow(row, data) ==
    [c \in Columns |-> IF c \in DOMAIN data THEN data[c] ELSE row[c]]

\* pd.concat([self.df, pd.DataFrame([data])]): a key the record lacks is NaN
RowOf(data) == [c \in Columns |-> IF c \in DOMAIN data THEN data[c] ELSE NaN]

\* every matching row overwritten, not only the first
UpsertRowsAll(d, data) ==
    LET idx == MatchIndex(d, UpsertKey(data)) IN
    IF idx # {}
    THEN [i \in 1..Len(d) |-> IF i \in idx THEN OverwriteRow(d[i], data) ELSE d[i]]
    ELSE Append(d, RowOf(data))

UpsertRows(d, data) ==
    LET idx == MatchIndex(d, UpsertKey(data)) IN
    IF idx # {}
    THEN [d EXCEPT ![Min(idx)] = OverwriteRow(d[Min(idx)], data)]
    ELSE Append(d, RowOf(data))

\* the table after a call that did not raise
upsert_student(d, data) == NormalizeSerialColumn(UpsertRows(d, data))

-----------------------------------------------------------------------------
(* Excel workbooks and the file system *)

StoragePath == "students_storage.xlsx"
UserPaths == {"a.xlsx"}
Paths == UserPaths \cup {StoragePath}
NoPath == "None"

NoText == <<"N", "o", "n", "e">>
NoPdfs == [p \in {} |-> <<>>]

NoFile == [exists |-> FALSE, cols |-> {}, rows |-> <<>>]

NA_NA == <<"N", "A">>
NA_NSlashA == <<"N", "/", "A">>
NA_NULL == <<"N", "U", "L", "L">>
NA_NaN == <<"N", "a", "N">>
NA_nSlasha == <<"n", "/", "a">>
NA_nan == <<"n", "a", "n">>
NA_null == <<"n", "u", "l", "l">>

\* the strings read_excel takes for a missing value (pandas' default na_values)
NaStrings ==
    { <<>>, NA_NA, NA_NSlashA, NA_NULL, NA_NaN, NA_nSlasha, NA_nan, NA_null }

\* pd.read_excel: an empty cell, and a text cell holding an na string, is NaN
ReadCell(v) == IF v.t = "str" /\ v.s \in NaStrings THEN NaN ELSE v

\* load_excel, lines 37-53: the frame read from a workbook
LoadFrame(wb) ==
    [i \in 1..Len(wb.rows) |->
        [c \in Columns |->
            LET x == IF c \in wb.cols THEN ReadCell(wb.rows[i][c]) ELSE Empty IN
            CASE c = "ID" -> ForceIdString(x)
              [] c = "Serial" -> SerialToInt(x)
              [] OTHER -> x]]

\* DataFrame.to_excel(path, index=False): NaN is written as an empty cell
WriteBook(d) == [exists |-> TRUE, cols |-> Columns, rows |-> d]

\* the remembered path ignored
SaveTargetStorage(path, fp) == IF path # NoPath THEN path ELSE StoragePath

\* path = self.filepath if self.filepath is not None else self.storage_path
SaveTarget(path, fp) ==
    IF path # NoPath THEN path ELSE IF fp # NoPath THEN fp ELSE StoragePath

\* the filepath load_excel leaves: the stored copy, or the file itself when the
\* copy fails or is not asked for
LoadedPath(path, copy_to_storage, copied) ==
    IF copy_to_storage /\ copied THEN StoragePath ELSE path

-----------------------------------------------------------------------------
(* TestimonialApp._create_pdf: the paragraph and its word wrap *)

UpperCase == <<"A", "B", "C", "D", "E", "F", "G", "H", "I", "J", "K", "L", "M", "N", "O", "P", "Q", "R", "S", "T", "U", "V", "W", "X", "Y", "Z">>
LowerCase == <<"a", "b", "c", "d", "e", "f", "g", "h", "i", "j", "k", "l", "m", "n", "o", "p", "q", "r", "s", "t", "u", "v", "w", "x", "y", "z">>

\* str.lower()
LowerChar(c) ==
    IF \E i \in 1..26 : UpperCase[i] = c
    THEN LowerCase[CHOOSE i \in 1..26 : UpperCase[i] = c]
    ELSE c

Lower(cs) == [i \in 1..Len(cs) |-> LowerChar(cs[i])]

L_space == <<" ">>
L_of == <<" ", "o", "f", " ">>
L_and == <<" ", "a", "n", "d", " ">>
L_student == <<" ", "i", "s", " ", "a", " ", "s", "t", "u", "d", "e", "n", "t", " ", "o", "f", " ", "C", "l", "a", "s", "s", ":", " ">>
L_stop == <<".", " ">>
L_bearing == <<"B", "e", "a", "r", "i", "n", "g", " ", "I", "D", "/", "R", "o", "l", "l", ":", " ">>
L_school == <<" ", "i", "n", " ", "D", "a", "f", "f", "o", "d", "i", "l", " ", "U", "n", "i", "v", "e", "r", "s", "i", "t", "y", " ", "S", "c", "h", "o", "o", "l", " ", "&", " ", "C", "o", "l", "l", "e", "g", "e", ".", " ">>
L_record == <<"A", "s", " ", "p", "e", "r", " ", "o", "u", "r", " ", "a", "d", "m", "i", "s", "s", "i", "o", "n", " ", "r", "e", "c", "o", "r", "d", " ">>
L_birth == <<" ", "d", "a", "t", "e", " ", "o", "f", " ", "b", "i", "r", "t", "h", " ", "i", "s", " ">>
L_knowledge == <<"T", "o", " ", "t", "h", "e", " ", "b", "e", "s", "t", " ", "o", "f", " ", "m", "y", " ", "k", "n", "o", "w", "l", "e", "d", "g", "e", " ">>
L_mannered == <<" ", "w", "a", "s", " ", "w", "e", "l", "l", " ", "m", "a", "n", "n", "e", "r", "e", "d", " ", "a", "n", "d", " ", "p", "o", "s", "s", "e", "s", "s", "e", "d", " ", "a", " ", "g", "o", "o", "d", " ", "m", "o", "r", "a", "l", " ", "c", "h", "a", "r", "a", "c", "t", "e", "r", ".", " ">>
L_indulge == <<" ", "d", "i", "d", " ", "n", "o", "t", " ", "i", "n", "d", "u", "l", "g", "e", " ">>
L_self == <<"s", "e", "l", "f", " ", "i", "n", " ", "a", "n", "y", " ", "a", "c", "t", "i", "v", "i", "t", "y", " ", "s", "u", "b", "v", "e", "r", "s", "i", "v", "e", " ", "t", "o", " ", "t", "h", "e", " ", "s", "t", "a", "t", "e", " ", "a", "n", "d", " ", "d", "i", "s", "c", "i", "p", "l", "i", "n", "e", " ", "d", "u", "r", "i", "n", "g", " ", "s", "t", "u", "d", "y", ".", " ">>
L_wish == <<"I", " ", "w", "i", "s", "h", " ">>
L_success == <<" ", "e", "v", "e", "r", "y", " ", "s", "u", "c", "c", "e", "s", "s", " ", "i", "n", " ", "l", "i", "f", "e", "!">>
L_male == <<"m", "a", "l", "e">>
L_he == <<"h", "e">>
L_He == <<"H", "e">>
L_his == <<"h", "i", "s">>
L_him == <<"h", "i", "m">>
L_son == <<"s", "o", "n">>
L_she == <<"s", "h", "e">>
L_She == <<"S", "h", "e">>
L_her == <<"h", "e", "r">>
L_daughter == <<"d", "a", "u", "g", "h", "t", "e", "r">>
L_testimonial == <<"t", "e", "s", "t", "i", "m", "o", "n", "i", "a", "l", "_">>
L_pdf == <<".", "p", "d", "f">>

\* the pronoun set of lines 443-446
PronounsSwapped(gender) ==
    IF gender = L_male
    THEN [he_she |-> L_he, He_She |-> L_He, his_her |-> L_him, Him_Her |-> L_his,
          son_daughter |-> L_son]
    ELSE [he_she |-> L_she, He_She |-> L_She, his_her |-> L_her, Him_Her |-> L_her,
          son_daughter |-> L_daughter]

Pronouns(gender) ==
    IF gender = L_male
    THEN [he_she |-> L_he, He_She |-> L_He, his_her |-> L_his, Him_Her |-> L_him,
          son_daughter |-> L_son]
    ELSE [he_she |-> L_she, He_She |-> L_She, his_her |-> L_her, Him_Her |-> L_her,
          son_daughter |-> L_daughter]

\* the f-string of lines 486-493
Paragraph(entry, gender) ==
    LET p == Pronouns(gender) IN
    PyStr(entry["Name"]) \o L_space \o p.son_daughter \o L_of \o PyStr(entry["Father"])
    \o L_and \o PyStr(entry["Mother"]) \o L_student \o PyStr(entry["Class"]) \o L_stop
    \o L_bearing \o PyStr(entry["ID"]) \o L_school
    \o L_record \o p.his_her \o L_birth \o PyStr(entry["DOB"]) \o L_stop
    \o L_knowledge \o p.he_she \o L_mannered
    \o p.He_She \o L_indulge \o p.Him_Her \o L_self
    \o L_wish \o p.Him_Her \o L_success

\* Times-Roman advance widths, in thousandths of the font size
WidthOf(c) ==
    CASE c \in {" ", ".", ","} -> 250
      [] c \in {"i", "j", "l", "t", "/", ":", ";"} -> 278
      [] c \in {"f", "r", "!", "-", "I", "(", ")"} -> 333
      [] c \in {"s", "J"} -> 389
      [] c \in {"a", "c", "e", "z", "?"} -> 444
      [] c \in {"b", "d", "g", "h", "k", "n", "o", "p", "q", "u", "v", "x", "y", "0", "1", "2", "3", "4", "5", "6", "7", "8", "9", "_"} -> 500
      [] c \in {"F", "P", "S"} -> 556
      [] c \in {"E", "L", "T", "Z"} -> 611
      [] c \in {"B", "C", "R"} -> 667
      [] c \in {"w", "A", "D", "G", "H", "K", "N", "O", "Q", "U", "V", "X", "Y"} -> 722
      [] c \in {"m", "&"} -> 778
      [] c \in {"M"} -> 889
      [] c \in {"W"} -> 944

WidthTable == [c \in {" ", "!", "&", "(", ")", ",", "-", ".", "/", "0", "1", "2", "3", "4", "5", "6", "7", "8", "9", ":", ";", "?", "A", "B", "C", "D", "E", "F", "G", "H", "I", "J", "K", "L", "M", "N", "O", "P", "Q", "R", "S", "T", "U", "V", "W", "X", "Y", "Z", "_", "a", "b", "c", "d", "e", "f", "g", "h", "i", "j", "k", "l", "m", "n", "o", "p", "q", "r", "s", "t", "u", "v", "w", "x", "y", "z"} |-> WidthOf(c)]

CharWidth(c) == WidthTable[c]

RECURSIVE SumWidths(_, _, _)
SumWidths(cs, lo, hi) ==
    IF lo > hi THEN 0
    ELSE IF lo = hi THEN CharWidth(cs[lo])
    ELSE SumWidths(cs, lo, (lo + hi) \div 2) + SumWidths(cs, ((lo + hi) \div 2) + 1, hi)

\* 1000 * c.stringWidth(text, "Times-Roman", 1)
StringWidth(cs) == SumWidths(cs, 1, Len(cs))

PageWidthMm == 210
LeftMm == 25
RightMm == 25
FontSize == 11

\* c.stringWidth(test, "Times-Roman", 11) > max_width, with mm = 72 / 25.4 points
TooWide(cs) ==
    StringWidth(cs) * FontSize * 254 > (PageWidthMm - LeftMm - RightMm) * 72 * 10000

\* a word starts at i: a non-whitespace character after whitespace or at the start
WordStart(cs, i) == ~IsSpace(cs[i]) /\ (i = 1 \/ IsSpace(cs[i - 1]))

RECURSIVE WordEnd(_, _)
WordEnd(cs, i) == IF i = Len(cs) \/ IsSpace(cs[i + 1]) THEN i ELSE WordEnd(cs, i + 1)

\* the words that start in lo..hi, in order
RECURSIVE WordsIn(_, _, _)
WordsIn(cs, lo, hi) ==
    IF lo > hi THEN <<>>
    ELSE IF lo = hi
         THEN (IF WordStart(cs, lo) THEN <<SubSeq(cs, lo, WordEnd(cs, lo))>> ELSE <<>>)
         ELSE WordsIn(cs, lo, (lo + hi) \div 2) \o WordsIn(cs, ((lo + hi) \div 2) + 1, hi)

\* str.split(): the maximal runs of non-whitespace
Split(cs) == WordsIn(cs, 1, Len(cs))

RECURSIVE JoinRange(_, _, _)
JoinRange(ws, lo, hi) ==
    IF lo > hi THEN <<>>
    ELSE IF lo = hi THEN ws[lo]
    ELSE JoinRange(ws, lo, (lo + hi) \div 2) \o L_space
         \o JoinRange(ws, ((lo + hi) \div 2) + 1, hi)

\* " ".join(words)
Join(ws) == JoinRange(ws, 1, Len(ws))

\* " ".join(line_words) after line_words.append(w); line is the text joined so
\* far, empty exactly when line_words is
Extended(line, w) == IF line = <<>> THEN w ELSE line \o L_space \o w

\* stringWidth is the sum of the character widths, so the width of the extended
\* line is the width of the line, a space and the word
ExtendedWidth(st, w) ==
    IF st.line = <<>> THEN StringWidth(w)
    ELSE st.width + CharWidth(" ") + StringWidth(w)

\* 1000 * stringWidth(test) > 1000 * max_width / 11
WidthTooWide(width) ==
    width * FontSize * 254 > (PageWidthMm - LeftMm - RightMm) * 72 * 10000

\* no line drawn yet, line_words = []
WrapStart == [line |-> <<>>, width |-> 0, drawn |-> <<>>]

\* the loop body with line_words.pop() left out: the overflowing word is drawn
\* on the flushed line too
WrapStepKeeping(st, w) ==
    IF WidthTooWide(ExtendedWidth(st, w))
    THEN [line |-> w, width |-> StringWidth(w),
          drawn |-> Append(st.drawn, Extended(st.line, w))]
    ELSE [line |-> Extended(st.line, w), width |-> ExtendedWidth(st, w),
          drawn |-> st.drawn]

\* lines 502-508, the loop body for the word w
WrapStep(st, w) ==
    IF WidthTooWide(ExtendedWidth(st, w))
    THEN [line |-> w, width |-> StringWidth(w), drawn |-> Append(st.drawn, st.line)]
    ELSE [line |-> Extended(st.line, w), width |-> ExtendedWidth(st, w),
          drawn |-> st.drawn]

\* lines 501-508: the loop body applied to words[lo], ..., words[hi] in order
RECURSIVE WrapLoop(_, _, _, _)
WrapLoop(words, lo, hi, st) ==
    IF lo > hi THEN st
    ELSE IF lo = hi THEN WrapStep(st, words[lo])
    ELSE LET first == WrapLoop(words, lo, (lo + hi) \div 2, st) IN
         IF first.width >= 0
         THEN WrapLoop(words, ((lo + hi) \div 2) + 1, hi, first)
         ELSE first

\* the lines drawn for the paragraph, top to bottom: the loop, then line 509
Wrap(paragraph) ==
    LET st == WrapLoop(Split(paragraph), 1, Len(Split(paragraph)), WrapStart)
    IN Append(st.drawn, st.line)

\* the page _create_pdf writes: the five table values, the paragraph, its lines
create_pdf(entry, date, gender) ==
    [cells |-> <<PyStr(entry["Serial"]), date, PyStr(entry["ID"]),
                 PyStr(entry["Class"]), PyStr(entry["Session"])>>,
     paragraph |-> Paragraph(entry, gender),
     lines |-> Wrap(Paragraph(entry, gender))]

\* f"testimonial_{student_id}.pdf"
PdfPath(student_id) == L_testimonial \o student_id \o L_pdf

-----------------------------------------------------------------------------
(* Inputs of the model *)

T_Asha == <<"A", "s", "h", "a">>
T_Bina == <<"B", "i", "n", "a">>
T_Ram == <<"R", "a", "m">>
T_Sita == <<"S", "i", "t", "a">>
T_10 == <<"1", "0">>
T_2024 == <<"2", "0", "2", "4">>
T_Dob == <<"0", "1", "/", "0", "1", "/", "2", "0", "1", "0">>
Id_7 == <<"7">>
Id_007 == <<"0", "0", "7">>
Id_7dot0 == <<"7", ".", "0">>
Id_pad7 == <<" ", "7">>
Id_A1 == <<"A", "1">>
Id_blank == <<" ">>
T_x == <<"x">>
T_9 == <<"9">>

Record(serial, id, name) ==
    [Serial |-> serial, ID |-> Str(id), Name |-> Str(name), Father |-> Str(T_Ram),
     Mother |-> Str(T_Sita), Class |-> Str(T_10), Session |-> Str(T_2024),
     DOB |-> Str(T_Dob)]

Without(data, c) == [k \in (DOMAIN data) \ {c} |-> data[k]]

\* the three spellings of one identifier
Spellings == {Id_7, Id_007, Id_7dot0}

\* the records handed to upsert_student
Records ==
    { Record(Int_(1), id, T_Asha) : id \in Spellings \cup {Id_pad7} }
    \cup { [Record(Str(T_x), Id_A1, T_Asha) EXCEPT !.Father = Empty],
           Without(Record(Int_(3), Id_7, T_Bina), "Mother"),
           Record(Int_(1), <<>>, T_Asha),
           Record(Int_(1), Id_blank, T_Asha),
           Without(Record(Int_(1), Id_7, T_Asha), "ID") }

\* the texts typed into a table cell, and the columns they are typed in
EditTexts == {T_x, T_9}
EditColumns == {"Serial", "ID", "Father"}

\* workbooks found on disk: one lacks the Mother column and holds a numeric ID
\* cell, the other holds two spellings of one ID and an empty Father cell
BookA ==
    [exists |-> TRUE, cols |-> Columns \ {"Mother"},
     rows |-> << [Record(Int_(3), Id_7, T_Asha) EXCEPT !.ID = Int_(7)] >>]

BookB ==
    [exists |-> TRUE, cols |-> Columns,
     rows |-> << Record(Int_(3), Id_007, T_Asha),
                 [Record(Str(T_x), Id_7, T_Bina) EXCEPT !.Father = NaN] >>]

ExternalBooks == {BookA, BookB}


T_Male == <<"M", "a", "l", "e">>
T_Female == <<"F", "e", "m", "a", "l", "e">>
T_Today == <<"0", "6", "/", "1", "1", "/", "2", "0", "2", "6">>
T_12 == <<"1", "2">>
T_1 == <<"1">>
T_AshaPadded == <<" ", "A", "s", "h", "a", " ">>
T_AshaRani == <<"A", "s", "h", "a", " ", "R", "a", "n", "i">>

\* a name of one long word
LongName == [i \in 1..LongNameLen |-> "M"]

\* the form as filled in: the nine line edits and the gender box
BaseForm ==
    [sn |-> T_1, date |-> T_Today, id |-> T_12, class |-> T_10, session |-> T_2024,
     name |-> T_Asha, father |-> T_Ram, mother |-> T_Sita, dob |-> T_Dob,
     gender |-> T_Male]

FormsOfOneGender ==
    { BaseForm,
      [BaseForm EXCEPT !.sn = <<>>],
      [BaseForm EXCEPT !.sn = T_x],
      [BaseForm EXCEPT !.date = <<>>],
      [BaseForm EXCEPT !.id = Id_blank],
      [BaseForm EXCEPT !.id = Id_007],
      [BaseForm EXCEPT !.name = <<>>],
      [BaseForm EXCEPT !.name = T_AshaPadded],
      [BaseForm EXCEPT !.name = T_AshaRani, !.id = Id_7],
      [BaseForm EXCEPT !.name = LongName],
      [BaseForm EXCEPT !.father = <<>>, !.dob = <<>>, !.mother = <<>>] }

\* the forms filled in for a girl
FormsOfFemale ==
    { [f EXCEPT !.gender = T_Female] :
        f \in { BaseForm, [BaseForm EXCEPT !.name = <<>>] } }

\* the gender box offers Male and Female
Forms == FormsOfOneGender \cup FormsOfFemale

-----------------------------------------------------------------------------
(* State machine of one session *)

NoData == [k \in {} |-> NaN]

NoForm == [k \in {} |-> <<>>]

Done(op, path, data, raised) ==
    [op |-> op, path |-> path, data |-> data, raised |-> raised,
     outcome |-> IF raised THEN "error" ELSE "ok", form |-> NoForm, n |-> last.n + 1,
     g |-> last.g]

\* StudentDatabase.__init__: the storage file, when there is one, is loaded
Init ==
    /\ \E a \in ExternalBooks, st \in ExternalBooks \cup {NoFile} :
        /\ files = [p \in Paths |->
                      IF p = StoragePath THEN st ELSE IF p = "a.xlsx" THEN a ELSE NoFile]
        /\ df = IF st.exists THEN LoadFrame(st) ELSE EmptyFrame
        /\ filepath = IF st.exists THEN StoragePath ELSE NoPath
    /\ last_pdf = NoText
    /\ pdfs = NoPdfs
    /\ last = [op |-> "init", path |-> NoPath, data |-> NoData, raised |-> FALSE,
               outcome |-> "ok", form |-> NoForm, n |-> 0, g |-> 0]

\* StudentDatabase.load_excel(path, copy_to_storage)
load_excel ==
    \E path \in Paths, copy_to_storage \in BOOLEAN, copy_ok \in BOOLEAN :
        /\ last.n < MaxOps
        /\ UNCHANGED <<last_pdf, pdfs>>
        /\ IF ~files[path].exists
           THEN /\ UNCHANGED <<df, filepath, files>>
                /\ last' = Done("load", path, NoData, TRUE)
           ELSE LET copied == copy_ok /\ path # StoragePath IN
                /\ Len(files[path].rows) <= MaxRows
                /\ df' = LoadFrame(files[path])
                /\ files' = IF copy_to_storage /\ copied
                            THEN [files EXCEPT ![StoragePath] = files[path]]
                            ELSE files
                /\ filepath' = LoadedPath(path, copy_to_storage, copied)
                /\ last' = Done("load", path, NoData, FALSE)

\* StudentDatabase.save_excel(path=None); the write may fail (OSError)
save_excel ==
    \E path \in Paths \cup {NoPath}, write_ok \in BOOLEAN :
        /\ last.n < MaxOps
        /\ UNCHANGED <<last_pdf, pdfs>>
        /\ IF write_ok
           THEN /\ files' = [files EXCEPT ![SaveTarget(path, filepath)] = WriteBook(df)]
                /\ filepath' = SaveTarget(path, filepath)
                /\ UNCHANGED df
                /\ last' = Done("save", path, NoData, FALSE)
           ELSE /\ UNCHANGED <<df, filepath, files>>
                /\ last' = Done("save", path, NoData, TRUE)

\* StudentDatabase.upsert_student(data)
upsert ==
    \E data \in Records :
        /\ last.n < MaxOps
        /\ IF UpsertRaises(data)
           THEN /\ UNCHANGED df
                /\ last' = Done("upsert", NoPath, data, TRUE)
           ELSE /\ Len(upsert_student(df, data)) <= MaxRows
                /\ df' = upsert_student(df, data)
                /\ last' = Done("upsert", NoPath, data, FALSE)
        /\ UNCHANGED <<filepath, files, last_pdf, pdfs>>

\* TestimonialApp.on_table_item_changed: self.db.df.at[r, colname] = item.text()
EditCell(d, r, c, text) == [d EXCEPT ![r][c] = Str(text)]

on_table_item_changed ==
    \E r \in 1..Len(df), c \in EditColumns, text \in EditTexts :
        /\ last.n < MaxOps
        /\ df' = EditCell(df, r, c, text)
        /\ last' = Done("edit", NoPath, [k \in {c} |-> Str(text)], FALSE)
        /\ UNCHANGED <<filepath, files, last_pdf, pdfs>>

\* vals = [i.text().strip() for i in self.inputs]
Vals(form) ==
    [sn |-> Strip(form.sn), date |-> Strip(form.date), id |-> Strip(form.id),
     class |-> Strip(form.class), session |-> Strip(form.session),
     name |-> Strip(form.name), father |-> Strip(form.father),
     mother |-> Strip(form.mother), dob |-> Strip(form.dob)]

\* a variant that takes the Student Name as optional
FormIncompleteNameOptional(v) == v.sn = <<>> \/ v.date = <<>> \/ v.id = <<>>

\* any(v == "" for v in [vals[0], vals[1], vals[2], vals[5]])
FormIncomplete(v) == v.sn = <<>> \/ v.date = <<>> \/ v.id = <<>> \/ v.name = <<>>

\* the entry dict of lines 406-415
Entry(v) ==
    [Serial |-> IF IsDigit(v.sn) THEN Int_(DigitsValue(v.sn)) ELSE Str(v.sn),
     ID |-> Str(v.id), Name |-> Str(v.name), Father |-> Str(v.father),
     Mother |-> Str(v.mother), Class |-> Str(v.class), Session |-> Str(v.session),
     DOB |-> Str(v.dob)]

\* the document _create_pdf writes for each filling of the form
Documents ==
    [form \in Forms |->
        create_pdf(Entry(Vals(form)), Vals(form).date, Lower(form.gender))]

Generated(form, data, outcome) ==
    [op |-> "generate", path |-> NoPath, data |-> data, raised |-> outcome # "ok",
     outcome |-> outcome, form |-> form, n |-> last.n + 1, g |-> last.g + 1]

\* TestimonialApp.generate_pdf; writing the workbook and writing the document
\* may each fail (OSError)
generate_pdf ==
    \E form \in Forms, write_ok \in BOOLEAN, pdf_ok \in BOOLEAN :
        LET v == Vals(form)
            entry == Entry(v)
            gender == Lower(form.gender)
            target == SaveTarget(NoPath, filepath)
            pdf_path == PdfPath(v.id)
        IN
        /\ last.n < MaxOps
        /\ last.g < MaxGenerates
        /\ IF FormIncomplete(v)
           THEN /\ UNCHANGED <<df, filepath, files, last_pdf, pdfs>>
                /\ last' = Generated(form, NoData, "invalid")
           ELSE IF UpsertRaises(entry)
           THEN /\ UNCHANGED <<df, filepath, files, last_pdf, pdfs>>
                /\ last' = Generated(form, entry, "upsert_error")
           ELSE /\ Len(upsert_student(df, entry)) <= MaxRows
                /\ df' = upsert_student(df, entry)
                /\ IF ~write_ok
                   THEN /\ UNCHANGED <<filepath, files, last_pdf, pdfs>>
                        /\ last' = Generated(form, entry, "save_error")
                   ELSE /\ files' = [files EXCEPT ![target] = WriteBook(df')]
                        /\ filepath' = target
                        /\ IF ~pdf_ok
                           THEN /\ UNCHANGED <<last_pdf, pdfs>>
                                /\ last' = Generated(form, entry, "pdf_error")
                           ELSE /\ pdfs' = [p \in DOMAIN pdfs \cup {pdf_path} |->
                                              IF p = pdf_path
                                              THEN Documents[form]
                                              ELSE pdfs[p]]
                                /\ last_pdf' = pdf_path
                                /\ last' = Generated(form, entry, "ok")

Next == load_excel \/ save_excel \/ upsert \/ on_table_item_changed

Spec == Init /\ [][Next]_vars

\* sessions of the Generate button alone
NextPdf == generate_pdf

SpecPdf == Init /\ [][NextPdf]_vars

-----------------------------------------------------------------------------
(* Properties *)

Stepped == last'.n = last.n + 1

UpsertDone == last.op = "upsert" /\ ~last.raised

\* C1: after one record was inserted by upsert_student under one of the
\* spellings "7", "007", "7.0", get_student_by_id finds that record under each
\* of the three spellings.
C1_LookupUnderEverySpelling ==
    (UpsertDone /\ Len(df) = 1 /\ last.data["ID"].s \in Spellings)
        => \A sp \in Spellings :
               /\ get_student_by_id(df, sp).found
               /\ get_student_by_id(df, sp).row = df[1]

\* C2: upsert_student is idempotent: a second call with the record of the call
\* that just succeeded leaves the table as the first call left it.
C2_UpsertIdempotent ==
    UpsertDone => upsert_student(df, last.data) = df

\* the ID of the record is missing, empty or only whitespace
IdAbsent(data) ==
    \/ "ID" \notin DOMAIN data
    \/ /\ data["ID"].t = "str"
       /\ \A i \in 1..Len(data["ID"].s) : IsSpace(data["ID"].s[i])

\* C3: upsert_student with a missing, empty or whitespace-only ID raises and
\* leaves the table as it was: same rows, same values, same order.
C3_EmptyIdRejected ==
    [][(Stepped /\ last'.op = "upsert" /\ IdAbsent(last'.data))
          => (last'.raised /\ df' = df)]_vars

C3_Witness ==
    /\ last.op = "upsert" /\ last.raised /\ Len(df) > 0
    /\ "ID" \in DOMAIN last.data /\ last.data["ID"].s = Id_blank

AllSerialsNumeric(d) == \A i \in 1..Len(d) : ToNumeric(d[i].Serial).ok

SerialValue(d, i) == ToNumeric(d[i].Serial).n

\* C4 as stated: get_next_serial is 1 on a table with no rows and otherwise the
\* largest Serial + 1, in every state load, upsert and cell edits reach.
C4_NextSerialIsMaxPlusOne ==
    /\ Len(df) = 0 => get_next_serial(df) = 1
    /\ \A i \in 1..Len(df) :
          ToNumeric(df[i].Serial).ok => get_next_serial(df) > SerialValue(df, i)

\* C4 amended: get_next_serial is 1 on a table with no rows and on a table where
\* some Serial cell is not numeric; otherwise it is the largest Serial + 1.
C4_NextSerial ==
    /\ Len(df) = 0 => get_next_serial(df) = 1
    /\ (Len(df) > 0 /\ ~AllSerialsNumeric(df)) => get_next_serial(df) = 1
    /\ (Len(df) > 0 /\ AllSerialsNumeric(df)) =>
          /\ \A i \in 1..Len(df) : get_next_serial(df) > SerialValue(df, i)
          /\ \E i \in 1..Len(df) : get_next_serial(df) = SerialValue(df, i) + 1

C4_Witness ==
    /\ Len(df) = 2 /\ AllSerialsNumeric(df)
    /\ df[1].Serial.t = "str" /\ SerialValue(df, 1) > SerialValue(df, 2)
    /\ get_next_serial(df) = 10

\* C5: save_excel followed by load_excel of the same file gives back the
\* records of any table upsert_student produced: every field identical.
C5_RoundTrip ==
    UpsertDone => LoadFrame(WriteBook(df)) = df

\* C7 as stated: a save_excel without a path writes to the path most recently
\* given to load_excel or save_excel.
C7_SavesToLastGivenPath ==
    (last.op \in {"load", "save"} /\ ~last.raised /\ last.path # NoPath)
        => SaveTarget(NoPath, filepath) = last.path

\* C7 amended: save_excel without a path writes the table to the remembered
\* path (the storage path when none is remembered); save_excel with a path
\* writes there; either way the written path becomes the remembered one.  A
\* load_excel remembers the storage path when it copied the file there, and
\* else the loaded path; nothing else changes the remembered path.
C7_SaveTarget ==
    [][Stepped =>
        /\ (last'.op = "save" /\ ~last'.raised) =>
              LET target == IF last'.path # NoPath THEN last'.path
                            ELSE IF filepath # NoPath THEN filepath ELSE StoragePath
              IN /\ files'[target] = WriteBook(df)
                 /\ \A p \in Paths \ {target} : files'[p] = files[p]
                 /\ filepath' = target
        /\ (last'.op = "load" /\ ~last'.raised) =>
              \/ filepath' = last'.path /\ files' = files
              \/ /\ filepath' = StoragePath
                 /\ files' = [files EXCEPT ![StoragePath] = files[last'.path]]
        /\ (last'.op \in {"upsert", "edit"} \/ last'.raised) =>
              (filepath' = filepath /\ files' = files)]_vars

C7_Witness ==
    /\ last.op = "save" /\ ~last.raised /\ last.path = NoPath
    /\ filepath = "a.xlsx" /\ files["a.xlsx"] = WriteBook(df) /\ Len(df) > 0

\* C8: every row holds a value, the empty string for an absent one, in each of
\* ID, Name, Father, Mother, Class, Session and DOB.
C8_ColumnsComplete ==
    \A i \in 1..Len(df) : \A c \in TextColumns : df[i][c].t = "str"

FirstMatch(d, data) == Min(MatchIndex(d, UpsertKey(data)))

\* the first matching row takes the supplied values
TakesValues(old, new, data) ==
    \A c \in Columns :
        new[c] = IF c \notin DOMAIN data THEN (IF c = "Serial" THEN SerialToInt(old[c]) ELSE old[c])
                 ELSE IF c = "Serial" THEN SerialToInt(data[c]) ELSE data[c]

\* C10 as stated: a successful upsert_student changes the first matching row
\* and no other, or appends one row when none matches and changes no other.
C10_OtherRowsUntouched ==
    [][(Stepped /\ last'.op = "upsert" /\ ~last'.raised) =>
        IF MatchIndex(df, UpsertKey(last'.data)) # {}
        THEN /\ Len(df') = Len(df)
             /\ TakesValues(df[FirstMatch(df, last'.data)],
                            df'[FirstMatch(df, last'.data)], last'.data)
             /\ \A i \in 1..Len(df) : i # FirstMatch(df, last'.data) => df'[i] = df[i]
        ELSE /\ Len(df') = Len(df) + 1
             /\ \A i \in 1..Len(df) : df'[i] = df[i]]_vars

\* C10 amended: as stated, except that every row's Serial cell is re-normalised
\* to an integer (a non-numeric Serial becomes 0); all other cells of the other
\* rows are unchanged, and the appended row holds the supplied values, NaN for
\* a field the record lacks.
C10_UpsertEffect ==
    [][(Stepped /\ last'.op = "upsert" /\ ~last'.raised) =>
        LET Other(i) == [df[i] EXCEPT !.Serial = SerialToInt(df[i].Serial)] IN
        IF MatchIndex(df, UpsertKey(last'.data)) # {}
        THEN /\ Len(df') = Len(df)
             /\ TakesValues(df[FirstMatch(df, last'.data)],
                            df'[FirstMatch(df, last'.data)], last'.data)
             /\ \A i \in 1..Len(df) : i # FirstMatch(df, last'.data) => df'[i] = Other(i)
        ELSE /\ Len(df') = Len(df) + 1
             /\ \A i \in 1..Len(df) : df'[i] = Other(i)
             /\ \A c \in Columns :
                   df'[Len(df')][c] =
                       IF c \notin DOMAIN last'.data THEN (IF c = "Serial" THEN Int_(0) ELSE NaN)
                       ELSE IF c = "Serial" THEN SerialToInt(last'.data[c])
                       ELSE last'.data[c]]_vars

\* an update of the first of two rows with the same ID, the second untouched
C10_Witness ==
    /\ UpsertDone /\ Len(df) = 2
    /\ PyStr(df[2].ID) = UpsertKey(last.data)
    /\ df[1].Name = last.data["Name"] /\ df[2].Name # last.data["Name"]

-----------------------------------------------------------------------------
(* Properties of the rendered paragraph *)

N_son == <<" ", "s", "o", "n", " ", "o", "f", " ">>
N_his == <<" ", "a", "d", "m", "i", "s", "s", "i", "o", "n", " ", "r", "e", "c", "o", "r", "d", " ", "h", "i", "s", " ", "d", "a", "t", "e", " ", "o", "f", " ", "b", "i", "r", "t", "h", " ">>
N_he == <<" ", "k", "n", "o", "w", "l", "e", "d", "g", "e", " ", "h", "e", " ", "w", "a", "s", " ">>
N_himself == <<".", " ", "H", "e", " ", "d", "i", "d", " ", "n", "o", "t", " ", "i", "n", "d", "u", "l", "g", "e", " ", "h", "i", "m", "s", "e", "l", "f", " ", "i", "n", " ">>
N_him == <<".", " ", "I", " ", "w", "i", "s", "h", " ", "h", "i", "m", " ", "e", "v", "e", "r", "y", " ", "s", "u", "c", "c", "e", "s", "s", " ">>
N_daughter == <<" ", "d", "a", "u", "g", "h", "t", "e", "r", " ", "o", "f", " ">>
N_her == <<" ", "a", "d", "m", "i", "s", "s", "i", "o", "n", " ", "r", "e", "c", "o", "r", "d", " ", "h", "e", "r", " ", "d", "a", "t", "e", " ", "o", "f", " ", "b", "i", "r", "t", "h", " ">>
N_she == <<" ", "k", "n", "o", "w", "l", "e", "d", "g", "e", " ", "s", "h", "e", " ", "w", "a", "s", " ">>
N_herself == <<".", " ", "S", "h", "e", " ", "d", "i", "d", " ", "n", "o", "t", " ", "i", "n", "d", "u", "l", "g", "e", " ", "h", "e", "r", "s", "e", "l", "f", " ", "i", "n", " ">>
N_herObject == <<".", " ", "I", " ", "w", "i", "s", "h", " ", "h", "e", "r", " ", "e", "v", "e", "r", "y", " ", "s", "u", "c", "c", "e", "s", "s", " ">>
N_example == <<"A", "s", "h", "a", " ", "d", "a", "u", "g", "h", "t", "e", "r", " ", "o", "f", " ", "R", "a", "m", " ", "a", "n", "d", " ", "S", "i", "t", "a", " ", "i", "s", " ", "a", " ", "s", "t", "u", "d", "e", "n", "t", " ", "o", "f", " ", "C", "l", "a", "s", "s", ":", " ", "1", "0", ".">>

Contains(cs, needle) ==
    \E i \in 1..(Len(cs) - Len(needle) + 1) : SubSeq(cs, i, i + Len(needle) - 1) = needle

GenerateDone == last.op = "generate" /\ last.outcome = "ok"

\* the words of the drawn lines, top to bottom
RECURSIVE WordsOfLines(_)
WordsOfLines(lines) ==
    IF lines = <<>> THEN <<>> ELSE Split(Head(lines)) \o WordsOfLines(Tail(lines))

\* C6 as stated: a paragraph wider than the usable width is drawn as more than
\* one line, no drawn line is wider than the usable width, and the drawn lines
\* joined by single spaces are the paragraph.
C6_WrapExact ==
    \A p \in DOMAIN pdfs :
        TooWide(pdfs[p].paragraph) =>
            /\ Len(pdfs[p].lines) > 1
            /\ \A k \in 1..Len(pdfs[p].lines) : ~TooWide(pdfs[p].lines[k])
            /\ Join(pdfs[p].lines) = pdfs[p].paragraph

\* C6 amended: the words of the drawn lines, in order, are the words of the
\* paragraph (its maximal runs of non-whitespace); a drawn line wider than the
\* usable width is a single word; and a paragraph whose words joined by single
\* spaces are wider than the usable width is drawn as more than one line.
C6_Wrap ==
    \A p \in DOMAIN pdfs :
        /\ WordsOfLines(pdfs[p].lines) = Split(pdfs[p].paragraph)
        /\ \A k \in 1..Len(pdfs[p].lines) :
              TooWide(pdfs[p].lines[k]) => Len(Split(pdfs[p].lines[k])) = 1
        /\ TooWide(Join(Split(pdfs[p].paragraph))) => Len(pdfs[p].lines) > 1

\* a page with a one-word line wider than the usable width, and further lines
C6_Witness ==
    \E p \in DOMAIN pdfs :
        /\ \E k \in 1..Len(pdfs[p].lines) : TooWide(pdfs[p].lines[k])
        /\ \E k \in 1..Len(pdfs[p].lines) :
              Len(Split(pdfs[p].lines[k])) > 1 /\ ~TooWide(pdfs[p].lines[k])
        /\ Len(pdfs[p].lines) > 4

\* the gender box reads "male" in any mix of upper and lower case
IsMale(g) ==
    /\ Len(g) = 4
    /\ g[1] \in {"M", "m"} /\ g[2] \in {"A", "a"}
    /\ g[3] \in {"L", "l"} /\ g[4] \in {"E", "e"}

\* C9: the paragraph of a generated document uses he / He / his / him / son when
\* the gender box reads male, and she / She / her / her / daughter otherwise;
\* for Asha, Ram, Sita, Class 10 and Female it holds the example sentence.
C9_Pronouns ==
    GenerateDone =>
        LET par == pdfs[last_pdf].paragraph IN
        /\ IsMale(last.form.gender) =>
              /\ Contains(par, N_son) /\ Contains(par, N_his) /\ Contains(par, N_he)
              /\ Contains(par, N_himself) /\ Contains(par, N_him)
              /\ ~Contains(par, N_her) /\ ~Contains(par, N_herObject)
        /\ ~IsMale(last.form.gender) =>
              /\ Contains(par, N_daughter) /\ Contains(par, N_her)
              /\ Contains(par, N_she) /\ Contains(par, N_herself)
              /\ Contains(par, N_herObject)
              /\ ~Contains(par, N_his) /\ ~Contains(par, N_him)
        /\ ( /\ ~IsMale(last.form.gender)
             /\ last.data["Name"] = Str(T_Asha) /\ last.data["Father"] = Str(T_Ram)
             /\ last.data["Mother"] = Str(T_Sita) /\ last.data["Class"] = Str(T_10) )
              => Contains(par, N_example)

C9_Witness ==
    /\ GenerateDone /\ last.form.gender = T_Female
    /\ last.data["Name"] = Str(T_Asha) /\ last.data["Father"] = Str(T_Ram)
    /\ last.data["Mother"] = Str(T_Sita) /\ last.data["Class"] = Str(T_10)
    /\ Contains(pdfs[last_pdf].paragraph, N_example)

\* a mandatory line edit (S/N, Date, ID, Student Name) holds only whitespace
MandatoryEmpty(form) ==
    \/ Strip(form.sn) = <<>> \/ Strip(form.date) = <<>>
    \/ Strip(form.id) = <<>> \/ Strip(form.name) = <<>>

\* C11: one generate action renders a document and records it as the last
\* generated document only when no mandatory input is empty, the record was
\* upserted into the table and the table, with the record in it, was written to
\* the workbook; when a mandatory input is empty, or the upsert or the save
\* raises, no document is written and the last generated document is the one it
\* was, and when a mandatory input is empty the table and the workbooks are
\* unchanged too.
C11_GenerateOrdering ==
    [][ last'.op = "generate" =>
          LET form == last'.form
              entry == Entry(Vals(form))
              saved == IF filepath = NoPath THEN StoragePath ELSE filepath
          IN
          /\ (pdfs' # pdfs \/ last_pdf' # last_pdf \/ last'.outcome = "ok") =>
                /\ ~MandatoryEmpty(form)
                /\ last'.outcome = "ok"
                /\ df' = upsert_student(df, entry)
                /\ \E r \in 1..Len(df') : df'[r]["ID"] = entry["ID"]
                /\ filepath' = saved
                /\ files'[saved] = WriteBook(df')
                /\ last_pdf' = PdfPath(Strip(form.id))
                /\ last_pdf' \in DOMAIN pdfs'
                /\ \A p \in DOMAIN pdfs : p # last_pdf' => pdfs'[p] = pdfs[p]
          /\ (MandatoryEmpty(form) \/ last'.outcome \in {"upsert_error", "save_error"}) =>
                /\ pdfs' = pdfs
                /\ last_pdf' = last_pdf
          /\ MandatoryEmpty(form) => UNCHANGED <<df, filepath, files>>
      ]_vars

\* after one document was generated, a generate for another student whose save
\* raised: the record is in the table, the document of the first generate is
\* still the last one and no document of the second student exists
C11_Witness ==
    /\ last.op = "generate"
    /\ last.g = 2
    /\ last.outcome = "save_error"
    /\ last_pdf # NoText
    /\ last_pdf # PdfPath(Strip(last.form.id))
    /\ PdfPath(Strip(last.form.id)) \notin DOMAIN pdfs
    /\ \E r \in 1..Len(df) : df[r]["ID"] = Str(Strip(last.form.id))

=============================================================================
